---- MODULE Spec2Model ----
(***************************************************************************)
(* Recording and export pipeline of the Music Emoji Painter.               *)
(*                                                                         *)
(* Two program variants are modelled together:                             *)
(*   variant = 10 : src/Final_SonicEmojiMaythem.py (keys 0-9, start page)  *)
(*   variant = 7  : src/music_emoji_painter.py     (keys 1-7, single page) *)
(*                                                                         *)
(* The state is the GameState object, the clock pygame.time.get_ticks(),   *)
(* the wall clock datetime.now() (whole seconds) and the saved_works       *)
(* directory.  One action per event handler of the main loop, plus the     *)
(* draw / frame capture / clock.tick tail of one loop cycle.               *)
(*                                                                         *)
(* Strings are sequences of one-character strings.  Times are integers in  *)
(* milliseconds; an audio event <<ms, i>> stands for (ms / 1000.0, i).     *)
(***************************************************************************)
EXTENDS Integers, Sequences, FiniteSets, TLC

\* ---------------------------------------------------------------- bounds
MaxNameLen == 1
MaxCycles == 2
MaxExportCycles == 2
MaxPlayed == 2
MaxRestartNotes == 3
MaxExports == 1
MaxReexports == 2
MaxTextLen == 3
MaxTrackFrames == 12
MaxTrackEvents == 3
MaxHistory == 1
MaxOverlap == 5

\* ------------------------------------------------------ program constants
NAME_LIMIT == 30
FPS == 60
FRAME_MS == 17
POPUP_CLICK_MS == 3000
max_attempts == 50
GAP == 10
SAMPLE_RATE == 44100
INT16_SCALE == 32768

None == -1

Variants == {10, 7}

\* characters the name box can receive in the model
InputChars == {"a", " "}
\* range of random.randint for the placement, cut down to a few values
ModelXs == {660}
ModelYs == {230}
ModelSizes == {40}

VARIABLES
  variant,
  ticks, wall_sec, running,
  dir_exists, files, export_log, save_result,
  played_fruits, song_name, audio_data, editing_name, name_input,
  download_button_rect, save_message, save_message_timer, save_success,
  right_emojis_to_show, cursor_position, selection_start, selection_end,
  placed_positions, recording_video, video_frames, frame_timestamps,
  recording_start_time, audio_events, name_entered, on_start_page,
  start_button_rect, back_arrow_rect,
  sounds, loading, track_call, audio_array,
  placement_call, placement,
  frame_query, frame_index

envVars == <<variant, ticks, wall_sec, running>>
fsVars == <<dir_exists, files, export_log, save_result>>
editVars == <<name_input, cursor_position, selection_start, selection_end>>
nameVars == <<song_name, name_entered, editing_name, on_start_page>>
rectVars == <<download_button_rect, start_button_rect, back_arrow_rect>>
msgVars == <<save_message, save_message_timer, save_success>>
frameVars == <<video_frames, frame_timestamps>>
noteVars == <<played_fruits, audio_data, audio_events,
              right_emojis_to_show, placed_positions>>
recVars == <<recording_video, recording_start_time>>
\* the tone bank, the position of the loop that fills it with the music
\* folder entries it met last, the arguments of the last
\* generate_audio_track call and the array it returned
audioVars == <<sounds, loading, track_call, audio_array>>
\* the history, size and random draws one run of the placement loop starts
\* from, and what the loop came to
placeVars == <<placement_call, placement>>
\* the query time and buffer length of one make_frame call, and the index
\* of the frame it returned
queryVars == <<frame_query, frame_index>>

vars == <<envVars, fsVars, editVars, nameVars, rectVars,
          msgVars, frameVars, noteVars, recVars, audioVars,
          placeVars, queryVars>>

\* ---------------------------------------------------------------- strings
Min(a, b) == IF a < b THEN a ELSE b
Max(a, b) == IF a > b THEN a ELSE b

\* s[a:b] of Python for 0 <= a, b
Slice(s, a, b) == SubSeq(s, a + 1, Min(b, Len(s)))

IsSpace(c) == c = " "

RECURSIVE LStrip(_)
LStrip(s) == IF s # <<>> /\ IsSpace(Head(s)) THEN LStrip(Tail(s)) ELSE s

RECURSIVE RStrip(_)
RStrip(s) ==
  IF s # <<>> /\ IsSpace(s[Len(s)]) THEN RStrip(SubSeq(s, 1, Len(s) - 1))
  ELSE s

\* str.strip()
Strip(s) == RStrip(LStrip(s))

\* str.isalnum() on the characters of the model
AlnumChars == {"a", "b", "1", "2", "m", "u", "s", "i", "c", "e", "o", "j"}
IsAlnum(c) == c \in AlnumChars

\* every character is kept
KeptCharAny(c) == TRUE

\* c.isalnum() or c in (' ', '-', '_', ...); the two CJK characters of
\* the source's list are not among the characters of the model
KeptChar(c) == IsAlnum(c) \/ c \in {" ", "-", "_"}

RECURSIVE FilterKept(_)
FilterKept(s) ==
  IF s = <<>> THEN <<>>
  ELSE IF KeptChar(Head(s)) THEN <<Head(s)>> \o FilterKept(Tail(s))
  ELSE FilterKept(Tail(s))

DEFAULT_STEM == <<"m", "u", "s", "i", "c", "_", "e", "m", "o", "j", "i">>

\* safe_song_name of save_work
SafeSongName(name) ==
  LET s == Strip(FilterKept(name))
  IN IF s = <<>> THEN DEFAULT_STEM ELSE s

\* ------------------------------------------------------------ note tables
DigitStr == <<"0", "1", "2", "3", "4", "5", "6", "7", "8", "9">>
PitchNames == <<"Do", "Re", "Mi", "Fa", "Sol", "La", "Si">>

\* the symbol keys pressed in the model: the first two of each variant
\* (K_0, K_1 of the ten keys, K_1, K_2 of the seven)
Keys(v) == IF v = 10 THEN {0, 1} ELSE {1, 2}

\* note_fruits[key] without the display-only image and colour
NoteFruit(v, k) ==
  IF v = 10
  THEN [name |-> DigitStr[k + 1], pitch |-> DigitStr[k + 1], sound_index |-> k]
  ELSE [name |-> DigitStr[k + 1], pitch |-> PitchNames[k], sound_index |-> k - 1]

\* ------------------------------------------------------------ file names
\* f"{safe_song_name}_{timestamp}" with timestamp = strftime("%Y%m%d_%H%M%S"),
\* the wall clock cut to whole seconds
FileName(name, sec) == [safe |-> SafeSongName(name), timestamp |-> sec]
VideoPath(filename) == [stem |-> filename, ext |-> ".mp4"]
SidecarPath(filename) == [stem |-> filename, ext |-> "_music.txt"]
\* no file at all
NoStem == [safe |-> <<>>, timestamp |-> None]
NoPath == VideoPath(NoStem)

\* ------------------------------------------------------------ audio track
\* Python floats are IEEE doubles (53-bit significands, round to nearest,
\* ties to even).  The operators below give the value of int((a / b) * c)
\* for integers a >= 0, b > 0, c >= 2 as the interpreter computes it.

\* floor(log2(a / b)) for a > 0
RECURSIVE FloorLog2(_, _)
FloorLog2(a, b) ==
  IF a >= 2 * b THEN FloorLog2(a, 2 * b) + 1
  ELSE IF a < b THEN FloorLog2(2 * a, b) - 1
  ELSE 0

RECURSIVE Pow2(_)
Pow2(k) == IF k = 0 THEN 1 ELSE 2 * Pow2(k - 1)

\* 2^k modulo m
RECURSIVE Pow2Mod(_, _)
Pow2Mod(k, m) == IF k = 0 THEN 1 % m ELSE (2 * Pow2Mod(k - 1, m)) % m

\* a / b in double precision is q * 2^-k with q the 53-bit integer nearest
\* to a * 2^k / b; the result is a * 2^k - b * q, a positive value meaning
\* that the quotient was rounded down
QuotientError(a, b) ==
  LET k == 52 - FloorLog2(a, b)
      r == ((a % (2 * b)) * Pow2Mod(k, 2 * b)) % (2 * b)
      odd == r >= b
      rem == r % b
  IN  IF 2 * rem < b \/ (2 * rem = b /\ ~odd) THEN rem ELSE rem - b

\* int((a / b) * c): when a * c / b is a whole number and the quotient was
\* rounded down by more than half a unit in the last place of the product,
\* the product lies below that whole number and int() drops it by one
IntOfScaled(a, b, c) ==
  IF a = 0 THEN 0
  ELSE LET exact == (a * c) \div b
           gap == FloorLog2(a * c, b) - FloorLog2(a, b) - 1
       IN  IF (a * c) % b = 0 /\ c * QuotientError(a, b) > b * Pow2(gap)
           THEN exact - 1
           ELSE exact

\* num_samples = int(duration * sample_rate), duration = frames / fps
NumSamples(frames, sample_rate) == IntOfScaled(frames, FPS, sample_rate)
\* start_sample = int(timestamp * sample_rate), timestamp = ms / 1000.0
StartSample(ms, sample_rate) == IntOfScaled(ms, 1000, sample_rate)

\* numpy int16 arithmetic keeps the low 16 bits
Wrap16(x) == ((x + INT16_SCALE) % (2 * INT16_SCALE)) - INT16_SCALE

Abs(x) == IF x < 0 THEN 0 - x ELSE x

\* a clip is the int16 array of a Sound: mono (one value per sample) or
\* stereo (a pair per sample)
MonoClip(data) == [channels |-> 1, data |-> data]
StereoClip(data) == [channels |-> 2, data |-> data]

\* the bank loaded at start-up, cut down to the model's keys and to clips of
\* a few samples
LoadedSounds ==
  << MonoClip(<<20000, -20000, 10000>>),
     StereoClip(<< <<32767, -32768>>, <<-100, 100>> >>) >>

\* ------------------------------------------------------ loading the bank
\* for i in range(10)
NumSounds == 10
\* for ext in ['.wav', '.mp3']
Extensions == <<".wav", ".mp3">>
\* what the loop can meet at music/NNN.ext: no such path, a file
\* pygame.mixer.Sound reads, a path pygame.mixer.Sound raises on
FileStates == {"absent", "loads", "raises"}
MusicFolders == [1 .. Len(Extensions) -> FileStates]
NoFolder == [e \in 1 .. Len(Extensions) |-> "absent"]

frequencies == <<262, 294, 330, 349, 392, 440, 494, 523, 587, 659>>
TONE_MS == 800

\* pygame.mixer.Sound(music/NNN.ext) and generate_tone(frequency, duration)
FileSound(i, ext) == [path |-> <<i, ext>>, tone |-> <<>>]
generate_tone(frequency, duration) ==
  [path |-> <<>>, tone |-> <<frequency, duration>>]

\* the inner loop from extension e on: what it appends to sounds.  An
\* absent path is skipped, a raising one is caught and the loop goes on, a
\* loading one is appended and ends the loop
RECURSIVE TryExtensions(_, _, _)
TryExtensions(i, folder, e) ==
  IF e > Len(Extensions) THEN <<>>
  ELSE IF folder[e] = "loads" THEN <<FileSound(i, Extensions[e])>>
  ELSE TryExtensions(i, folder, e + 1)

\* a loop that has no fallback
LoadSoundNoFallback(i, folder) == TryExtensions(i, folder, 1)

\* one pass of the outer loop: what it appends to sounds
LoadSound(i, folder) ==
  LET found == TryExtensions(i, folder, 1)
  IN  IF found # <<>> THEN found
      ELSE <<generate_tone(frequencies[i + 1], TONE_MS)>>

\* the loop has run through range(10)
Loaded == [i |-> NumSounds, folder |-> NoFolder]
NotLoaded == [i |-> 0, folder |-> NoFolder]

\* the rate the model synthesizes notes at, and the int16 notes of the
\* 7-symbol variant at that rate for the frequencies 262 and 294:
\* (32767.0 * 0.3 * exp(-3 t) * sin(2 pi f t)).astype(int16), t = j * 0.1
MODEL_RATE == 10
SynthNotes ==
  << <<0, 6925, 3171, -2349, -2815, 0, 1545, 707>>,
     <<0, 4280, -5130, 3801, -1740, 0, 955, -1144>> >>

\* sound_array of one event: two columns of int16 values
ColumnStack(data) == [j \in DOMAIN data |-> <<data[j], data[j]>>]
SoundArray(v, bank, sound_index, sample_rate) ==
  IF v = 10
  THEN LET clip == bank[sound_index + 1]
       IN  IF clip.channels = 1 THEN ColumnStack(clip.data) ELSE clip.data
  ELSE LET note == SynthNotes[sound_index + 1]
       IN  ColumnStack(SubSeq(note, 1, IntOfScaled(4, 5, sample_rate)))

\* the 10-symbol variant skips an index outside the bank
ValidIndex(v, bank, sound_index) ==
  v = 7 \/ (sound_index >= 0 /\ sound_index < Len(bank))

\* audio_samples is kept as its length and the samples some event has
\* written (index from 0); every other sample is zero.  The values are
\* numerators: the 10-symbol variant adds int16 / 32768.0 in float32, which
\* is exact for sums below 512, the 7-symbol variant adds in int16.
ZeroSample == <<0, 0>>
SampleAt(data, i) == IF i \in DOMAIN data THEN data[i] ELSE ZeroSample
AddSampleOverwrite(v, old, new) == new
AddSample(v, old, new) ==
  IF v = 10 THEN <<old[1] + new[1], old[2] + new[2]>>
  ELSE <<Wrap16(old[1] + new[1]), Wrap16(old[2] + new[2])>>

\* audio_samples[start_sample:end_sample] += sound_array[:actual_length]
AddSlice(v, data, start_sample, end_sample, sound_array) ==
  [i \in DOMAIN data \cup (start_sample .. end_sample - 1) |->
     IF i >= start_sample /\ i < end_sample
     THEN AddSample(v, SampleAt(data, i), sound_array[i - start_sample + 1])
     ELSE data[i]]

\* end_sample = min(start_sample + sound_length, num_samples)
EndSampleUnclipped(start_sample, sound_length, num_samples) ==
  start_sample + sound_length
EndSample(start_sample, sound_length, num_samples) ==
  Min(start_sample + sound_length, num_samples)

\* the slice one event writes: [start_sample, end_sample), empty when the
\* event starts at or after the end of the buffer or is skipped
EventSlice(v, bank, event, num_samples, sample_rate) ==
  LET start_sample == StartSample(event[1], sample_rate)
      sound_length ==
        IF ValidIndex(v, bank, event[2])
        THEN Len(SoundArray(v, bank, event[2], sample_rate))
        ELSE 0
      end_sample == EndSample(start_sample, sound_length, num_samples)
  IN  [start |-> start_sample,
       end |-> IF ValidIndex(v, bank, event[2]) /\ start_sample < num_samples
               THEN end_sample ELSE start_sample]

\* the loop over audio_events, in list order
RECURSIVE MixEvents(_, _, _, _, _, _)
MixEvents(v, bank, events, num_samples, sample_rate, data) ==
  IF events = <<>> THEN data
  ELSE LET slice == EventSlice(v, bank, Head(events), num_samples,
                               sample_rate)
           mixed == IF slice.end > slice.start
                    THEN AddSlice(v, data, slice.start, slice.end,
                                  SoundArray(v, bank, Head(events)[2],
                                             sample_rate))
                    ELSE data
       IN  MixEvents(v, bank, Tail(events), num_samples, sample_rate, mixed)

\* max_val = np.abs(audio_samples).max(), as a numerator over 32768
MaxVal(data) ==
  LET mags == {0} \cup {Abs(data[i][1]) : i \in DOMAIN data}
                  \cup {Abs(data[i][2]) : i \in DOMAIN data}
  IN  CHOOSE m \in mags : \A n \in mags : n <= m

\* if max_val > 1.0 (the 7-symbol variant has no such step)
ClipsNever(v, data) == FALSE
Clips(v, data) == v = 10 /\ MaxVal(data) > INT16_SCALE
\* the value every numerator is divided by: 32768 for int16 / 32768.0, and
\* max_val after audio_samples / max_val
Denominator(v, data) ==
  IF Clips(v, data) THEN MaxVal(data) ELSE INT16_SCALE

NoTrack == [called |-> FALSE, raised |-> FALSE, num_samples |-> 0,
            slices |-> <<>>, data |-> <<>>, den |-> INT16_SCALE]

\* generate_audio_track(duration, audio_events, sample_rate) with
\* duration = frames / 60 and timestamps in milliseconds.  np.max of an
\* empty array raises ValueError in the 10-symbol variant.
generate_audio_track(v, bank, frames, events, sample_rate) ==
  LET num_samples == NumSamples(frames, sample_rate)
      data == MixEvents(v, bank, events, num_samples, sample_rate, <<>>)
  IN  IF v = 10 /\ num_samples = 0
      THEN [NoTrack EXCEPT !.called = TRUE, !.raised = TRUE]
      ELSE [called |-> TRUE, raised |-> FALSE,
            num_samples |-> num_samples,
            slices |-> [e \in DOMAIN events |->
                          EventSlice(v, bank, events[e], num_samples,
                                     sample_rate)],
            data |-> data,
            den |-> Denominator(v, data)]

\* the bank after a call.  pygame.sndarray.array(sound) copies the samples
\* and astype / column_stack build new arrays, so the loop never writes to
\* a Sound; the 7-symbol variant does not read the bank at all.
SoundsAfterTrackShared(v, bank, events) ==
  [k \in DOMAIN bank |->
     IF v = 10 /\ \E e \in DOMAIN events : events[e][2] = k - 1
     THEN [bank[k] EXCEPT !.data = Tail(bank[k].data)]
     ELSE bank[k]]
SoundsAfterTrack(v, bank, events) == bank

\* no run of the placement loop
NoPlacementCall ==
  [history |-> <<>>, size |-> 0, repeat |-> 0,
   first |-> [x |-> 0, y |-> 0], rest |-> [x |-> 0, y |-> 0]]
NoPlacement ==
  [x |-> 0, y |-> 0, accepted |-> FALSE, tested |-> 0, sampled |-> 0,
   history |-> <<>>]

\* make_frame(t) on a buffer of `frames` frames, for t = num / den seconds:
\* frame_index = int(t * fps), moved to the last frame when it is past it
make_frame(num, den, frames) ==
  LET frame_index_ == IntOfScaled(num, den, FPS)
  IN  IF frame_index_ >= frames THEN frames - 1 ELSE frame_index_
NoQuery == [num |-> 0, den |-> 1, frames |-> 0]

\* no call pending
NoCall == [frames |-> 0, audio_events |-> <<>>, sample_rate |-> 0]

\* ------------------------------------------------------------- GameState
NoMessage == [text |-> "", path |-> NoPath]

\* the value of the latest save_work call: (ok, info) as returned, the way
\* it ended, the file stem and the number of the call if it made a file name
NoResult == [called |-> FALSE, raised |-> FALSE, ok |-> FALSE,
             outcome |-> "none", info |-> NoMessage, stem |-> NoStem,
             call |-> 0]

\* the tone bank filled at start-up
BankLoaded ==
  /\ sounds = LoadedSounds
  /\ loading = Loaded

\* game_state = GameState(), with nothing exported, mixed or placed yet
NewGame ==
  /\ variant \in Variants
  /\ frame_index = None
  /\ placement = NoPlacement
  /\ audio_array = NoTrack
  /\ ticks = 0
  /\ wall_sec = 0
  /\ running = TRUE
  /\ dir_exists = FALSE
  /\ files = <<>>
  /\ export_log = <<>>
  /\ save_result = NoResult
  /\ played_fruits = <<>>
  /\ song_name = <<>>
  /\ audio_data = <<>>
  /\ editing_name = TRUE
  /\ name_input = <<>>
  /\ download_button_rect = FALSE
  /\ save_message = NoMessage
  /\ save_message_timer = 0
  /\ save_success = TRUE
  /\ right_emojis_to_show = <<>>
  /\ cursor_position = 0
  /\ selection_start = 0
  /\ selection_end = 0
  /\ placed_positions = <<>>
  /\ recording_video = FALSE
  /\ video_frames = <<>>
  /\ frame_timestamps = <<>>
  /\ recording_start_time = None
  /\ audio_events = <<>>
  /\ name_entered = FALSE
  /\ on_start_page = (variant = 10)
  /\ start_button_rect = FALSE
  /\ back_arrow_rect = FALSE

Constructed == BankLoaded /\ NewGame

Init ==
  /\ Constructed
  /\ track_call = NoCall
  /\ placement_call = NoPlacementCall
  /\ frame_query = NoQuery

\* ------------------------------------------------- one main-loop cycle tail
\* drawing, frame capture and clock.tick(60) that close every loop cycle
\* the frame is kept without its timestamp
CaptureFrameNoStamp ==
  /\ recording_start_time' =
       IF recording_start_time = None THEN ticks ELSE recording_start_time
  /\ video_frames' = Append(video_frames, Len(right_emojis_to_show))
  /\ UNCHANGED frame_timestamps

CaptureFrame ==
  LET start == IF recording_start_time = None THEN ticks
               ELSE recording_start_time
  IN /\ recording_start_time' = start
     /\ video_frames' = Append(video_frames, Len(right_emojis_to_show))
     /\ frame_timestamps' = Append(frame_timestamps, ticks - start)

\* a frame is captured in every cycle, recording or not
CaptureDueAlways == TRUE

\* "if game_state.recording_video:" in front of the frame capture
CaptureDue == recording_video

\* cycles bounds the number of loop cycles
Cycle(cycles) ==
  /\ running
  /\ ticks < cycles * FRAME_MS
  /\ IF variant = 10
     THEN IF on_start_page
          THEN /\ start_button_rect' = TRUE
               /\ UNCHANGED <<download_button_rect, back_arrow_rect>>
          ELSE /\ back_arrow_rect' = TRUE
               /\ download_button_rect' = TRUE
               /\ UNCHANGED start_button_rect
     ELSE /\ download_button_rect' = TRUE
          /\ UNCHANGED <<start_button_rect, back_arrow_rect>>
  /\ IF CaptureDue
     THEN CaptureFrame
     ELSE UNCHANGED <<frameVars, recording_start_time>>
  /\ ticks' = ticks + FRAME_MS
  /\ UNCHANGED <<audioVars, placeVars, queryVars, variant, wall_sec, running, fsVars, editVars, nameVars,
                 msgVars, noteVars, recording_video>>

\* ------------------------------------------------- KEYDOWN while editing
\* every handler below runs with the other GameState fields untouched
KeepSession == UNCHANGED <<envVars, audioVars, placeVars, queryVars, fsVars, rectVars, msgVars, frameVars,
                           noteVars, recVars>>

\* name_input[:sel_start] + mid + name_input[sel_end:]
ReplaceSelection(mid) ==
  LET sel_start == Min(selection_start, selection_end)
      sel_end == Max(selection_start, selection_end)
  IN Slice(name_input, 0, sel_start) \o mid
       \o Slice(name_input, sel_end, Len(name_input))

SetCursor(c) ==
  /\ cursor_position' = c
  /\ selection_start' = c
  /\ selection_end' = c

KeyEscape ==
  /\ running /\ editing_name
  /\ editing_name' = FALSE
  /\ name_input' = <<>>
  /\ SetCursor(0)
  /\ UNCHANGED <<song_name, name_entered, on_start_page>>
  /\ KeepSession

KeyBackspace ==
  /\ running /\ editing_name
  /\ IF selection_start # selection_end
     THEN /\ name_input' = ReplaceSelection(<<>>)
          /\ SetCursor(Min(selection_start, selection_end))
     ELSE /\ cursor_position > 0
          /\ name_input' = Slice(name_input, 0, cursor_position - 1)
                             \o Slice(name_input, cursor_position, Len(name_input))
          /\ SetCursor(cursor_position - 1)
  /\ UNCHANGED nameVars
  /\ KeepSession

KeyDelete ==
  /\ running /\ editing_name
  /\ IF selection_start # selection_end
     THEN /\ name_input' = ReplaceSelection(<<>>)
          /\ SetCursor(Min(selection_start, selection_end))
     ELSE /\ cursor_position < Len(name_input)
          /\ name_input' = Slice(name_input, 0, cursor_position)
                             \o Slice(name_input, cursor_position + 1, Len(name_input))
          /\ UNCHANGED <<cursor_position, selection_start, selection_end>>
  /\ UNCHANGED nameVars
  /\ KeepSession

KeyLeft(shift) ==
  /\ running /\ editing_name
  /\ IF shift
     THEN /\ cursor_position > 0
          /\ cursor_position' = cursor_position - 1
          /\ selection_end' = cursor_position - 1
          /\ UNCHANGED selection_start
     ELSE SetCursor(IF cursor_position > 0 THEN cursor_position - 1
                    ELSE cursor_position)
  /\ UNCHANGED <<name_input, nameVars>>
  /\ KeepSession

KeyRight(shift) ==
  /\ running /\ editing_name
  /\ IF shift
     THEN /\ cursor_position < Len(name_input)
          /\ cursor_position' = cursor_position + 1
          /\ selection_end' = cursor_position + 1
          /\ UNCHANGED selection_start
     ELSE SetCursor(IF cursor_position < Len(name_input)
                    THEN cursor_position + 1 ELSE cursor_position)
  /\ UNCHANGED <<name_input, nameVars>>
  /\ KeepSession

KeyHome(shift) ==
  /\ running /\ editing_name
  /\ cursor_position' = 0
  /\ selection_start' = IF shift THEN selection_start ELSE 0
  /\ selection_end' = 0
  /\ UNCHANGED <<name_input, nameVars>>
  /\ KeepSession

KeyEnd(shift) ==
  /\ running /\ editing_name
  /\ cursor_position' = Len(name_input)
  /\ selection_start' = IF shift THEN selection_start ELSE Len(name_input)
  /\ selection_end' = Len(name_input)
  /\ UNCHANGED <<name_input, nameVars>>
  /\ KeepSession

KeySelectAll ==
  /\ running /\ editing_name
  /\ selection_start' = 0
  /\ selection_end' = Len(name_input)
  /\ cursor_position' = Len(name_input)
  /\ UNCHANGED <<name_input, nameVars>>
  /\ KeepSession

\* TEXTINPUT event; every character of the model is printable
TextInput(input_text) ==
  /\ running /\ editing_name
  /\ Len(name_input) < Min(NAME_LIMIT, MaxNameLen)
  /\ IF selection_start # selection_end
     THEN /\ name_input' = ReplaceSelection(input_text)
          /\ SetCursor(Min(selection_start, selection_end) + Len(input_text))
     ELSE /\ name_input' = Slice(name_input, 0, cursor_position) \o input_text
                             \o Slice(name_input, cursor_position, Len(name_input))
          /\ SetCursor(cursor_position + Len(input_text))
  /\ UNCHANGED nameVars
  /\ KeepSession

\* Return: confirm the name being edited
KeyReturn ==
  /\ running /\ editing_name
  /\ IF Strip(name_input) # <<>>
     THEN /\ song_name' = Strip(name_input)
          /\ name_entered' = TRUE
     ELSE UNCHANGED <<song_name, name_entered>>
  /\ editing_name' = FALSE
  /\ name_input' = <<>>
  /\ SetCursor(0)
  /\ UNCHANGED on_start_page
  /\ KeepSession

EditNext(chars) ==
  \/ KeyEscape
  \/ KeyBackspace
  \/ KeyDelete
  \/ \E shift \in BOOLEAN : KeyLeft(shift)
  \/ \E shift \in BOOLEAN : KeyRight(shift)
  \/ \E shift \in BOOLEAN : KeyHome(shift)
  \/ \E shift \in BOOLEAN : KeyEnd(shift)
  \/ KeySelectAll
  \/ \E c \in chars : TextInput(<<c>>)
  \/ KeyReturn

\* ------------------------------------------------- KEYDOWN on the canvas
\* not editing the name and, in the 10-symbol variant, on the second page
OnCanvas == ~editing_name /\ (variant = 10 => ~on_start_page)

\* a popup text: fixed words, followed by a file path in "Video saved to:"
Message(text, path) == [text |-> text, path |-> path]
NAME_FIRST_MSG == Message("Please enter a work name first!", NoPath)
SavedMsg(path) == Message("Video saved to: ", path)
\* the 7-symbol variant shows the next two popups in Chinese
SpaceFirstMsg(v) ==
  IF v = 10
  THEN Message("Please press Space key to finish recording first!", NoPath)
  ELSE Message("(zh) Please press Space key to finish recording first!", NoPath)
SaveFailedMsg(v) ==
  IF v = 10 THEN Message("Save failed! Please check:", NoPath)
  ELSE Message("(zh) Save failed! Please check:", NoPath)

\* centre distance test of the placement loop, on squares: for integers
\* d2 >= 0 and m >= 0, sqrt(d2) < m exactly when d2 < m * m
IsOverlapping(temp_x, temp_y, size, placed) ==
  \E i \in 1 .. Len(placed) :
    LET pos == placed[i]
        center1_x == temp_x + size \div 2
        center1_y == temp_y + size \div 2
        center2_x == pos.x + pos.size \div 2
        center2_y == pos.y + pos.size \div 2
        distance2 == (center1_x - center2_x) * (center1_x - center2_x)
                       + (center1_y - center2_y) * (center1_y - center2_y)
        min_distance == (size + pos.size) \div 2 + GAP
    IN distance2 < min_distance * min_distance

\* the random.randint draws of one run of the loop, as the list of the
\* max_attempts + 1 positions the run can ask for: `repeat` times one
\* position, then another
Stream(repeat, first, rest) ==
  [i \in 1 .. max_attempts + 1 |-> IF i <= repeat THEN first ELSE rest]
Positions(xs, ys) == [x : xs, y : ys]

\* for attempt in range(max_attempts): ... break / else: ...
\* tested counts the candidates put through the overlap test, sampled the
\* positions drawn, accepted says whether the loop ended by break
ExhaustedEarly(attempt) == attempt = max_attempts - 1
Exhausted(attempt) == attempt = max_attempts
RECURSIVE PlacementLoop(_, _, _, _)
PlacementLoop(placed, size, stream, attempt) ==
  IF Exhausted(attempt)
  THEN [x |-> stream[attempt + 1].x, y |-> stream[attempt + 1].y,
        accepted |-> FALSE, tested |-> attempt, sampled |-> attempt + 1,
        history |-> placed]
  ELSE LET temp == stream[attempt + 1]
       IN  IF ~IsOverlapping(temp.x, temp.y, size, placed)
           THEN [x |-> temp.x, y |-> temp.y,
                 accepted |-> TRUE, tested |-> attempt + 1,
                 sampled |-> attempt + 1,
                 history |-> Append(placed, [x |-> temp.x, y |-> temp.y,
                                             size |-> size])]
           ELSE PlacementLoop(placed, size, stream, attempt + 1)

\* the for/else over max_attempts random candidates drawn from xs, ys:
\* either some candidate is the first one that does not overlap, or all
\* max_attempts candidates overlap and one more position is drawn unchecked
PlaceEmoji(fruit_data, size, xs, ys) ==
  \/ \E temp_x \in xs, temp_y \in ys :
       /\ ~IsOverlapping(temp_x, temp_y, size, placed_positions)
       /\ placed_positions' =
            Append(placed_positions, [x |-> temp_x, y |-> temp_y, size |-> size])
       /\ right_emojis_to_show' =
            Append(right_emojis_to_show,
                   [fruit |-> fruit_data, random_display_size |-> size,
                    random_x |-> temp_x, random_y |-> temp_y])
  \/ /\ \E temp_x \in xs, temp_y \in ys :
          IsOverlapping(temp_x, temp_y, size, placed_positions)
     /\ \E random_x \in xs, random_y \in ys :
          right_emojis_to_show' =
            Append(right_emojis_to_show,
                   [fruit |-> fruit_data, random_display_size |-> size,
                    random_x |-> random_x, random_y |-> random_y])
     /\ UNCHANGED placed_positions

\* a symbol key before the name was entered: only the popup
KeySymbolNoName ==
  /\ save_success' = FALSE
  /\ save_message' = NAME_FIRST_MSG
  /\ save_message_timer' = ticks
  /\ UNCHANGED <<noteVars, recVars>>

\* the name check is left out of the symbol key handler
NameMissingNever == FALSE

\* "if not game_state.name_entered:" at the head of the symbol key handler
NameMissing == ~name_entered

\* a handler that logs an event only when the recording was already on
KeySymbolPlayUnlogged(k, size, xs, ys, cap) ==
  LET fruit_data == NoteFruit(variant, k)
      start == IF ~recording_video THEN ticks ELSE recording_start_time
  IN /\ Len(audio_data) < cap
     /\ recording_video' = TRUE
     /\ recording_start_time' = start
     /\ played_fruits' = Append(played_fruits, fruit_data)
     /\ audio_data' = Append(audio_data, fruit_data.sound_index)
     /\ audio_events' =
          IF recording_video
          THEN Append(audio_events, <<ticks - start, fruit_data.sound_index>>)
          ELSE audio_events
     /\ PlaceEmoji(fruit_data, size, xs, ys)
     /\ UNCHANGED msgVars

KeySymbolPlay(k, size, xs, ys, cap) ==
  LET fruit_data == NoteFruit(variant, k)
      start == IF ~recording_video THEN ticks ELSE recording_start_time
  IN /\ Len(audio_data) < cap
     /\ recording_video' = TRUE
     /\ recording_start_time' = start
     /\ played_fruits' = Append(played_fruits, fruit_data)
     /\ audio_data' = Append(audio_data, fruit_data.sound_index)
     /\ audio_events' =
          IF start # None
          THEN Append(audio_events, <<ticks - start, fruit_data.sound_index>>)
          ELSE audio_events
     /\ PlaceEmoji(fruit_data, size, xs, ys)
     /\ UNCHANGED msgVars

KeySymbol(k, size, xs, ys, cap) ==
  /\ running /\ OnCanvas
  /\ k \in Keys(variant)
  /\ IF NameMissing THEN KeySymbolNoName
     ELSE KeySymbolPlay(k, size, xs, ys, cap)
  /\ UNCHANGED <<envVars, audioVars, placeVars, queryVars, fsVars, editVars, nameVars, rectVars, frameVars>>

\* Space that also throws the captured frames away
KeySpaceDropsFrames ==
  /\ running /\ OnCanvas
  /\ recording_video
  /\ recording_video' = FALSE
  /\ video_frames' = <<>>
  /\ frame_timestamps' = <<>>
  /\ UNCHANGED <<envVars, audioVars, placeVars, queryVars, fsVars, editVars, nameVars, rectVars, msgVars,
                 noteVars, recording_start_time>>

\* Space that also empties the event log
KeySpaceClearsLog ==
  /\ running /\ OnCanvas
  /\ recording_video
  /\ recording_video' = FALSE
  /\ audio_events' = <<>>
  /\ UNCHANGED <<envVars, audioVars, placeVars, queryVars, fsVars, editVars, nameVars, rectVars, msgVars,
                 video_frames, frame_timestamps, played_fruits, audio_data,
                 right_emojis_to_show, placed_positions, recording_start_time>>

\* Space: the stop signal
KeySpace ==
  /\ running /\ OnCanvas
  /\ recording_video
  /\ recording_video' = FALSE
  /\ UNCHANGED <<envVars, audioVars, placeVars, queryVars, fsVars, editVars, nameVars, rectVars, msgVars,
                 frameVars, noteVars, recording_start_time>>

\* R that forgets the work name as well
ResetForgetsName ==
  /\ video_frames' = <<>>
  /\ frame_timestamps' = <<>>
  /\ recording_start_time' = None
  /\ audio_events' = <<>>
  /\ played_fruits' = <<>>
  /\ right_emojis_to_show' = <<>>
  /\ placed_positions' = <<>>
  /\ recording_video' = FALSE
  /\ save_message' = NoMessage
  /\ song_name' = <<>>
  /\ name_entered' = FALSE
  /\ UNCHANGED <<audio_data, editing_name, on_start_page, editVars, rectVars,
                 save_message_timer, save_success>>

\* R in the 10-symbol variant: restart page 2, keep the work name
ResetKeepName ==
  /\ video_frames' = <<>>
  /\ frame_timestamps' = <<>>
  /\ recording_start_time' = None
  /\ audio_events' = <<>>
  /\ played_fruits' = <<>>
  /\ right_emojis_to_show' = <<>>
  /\ placed_positions' = <<>>
  /\ recording_video' = FALSE
  /\ save_message' = NoMessage
  /\ song_name' = song_name
  /\ name_entered' = TRUE
  /\ UNCHANGED <<audio_data, editing_name, on_start_page, editVars, rectVars,
                 save_message_timer, save_success>>

\* R in the 7-symbol variant: game_state = GameState()
ResetAll ==
  /\ played_fruits' = <<>>
  /\ song_name' = <<>>
  /\ audio_data' = <<>>
  /\ editing_name' = TRUE
  /\ name_input' = <<>>
  /\ download_button_rect' = FALSE
  /\ save_message' = NoMessage
  /\ save_message_timer' = 0
  /\ save_success' = TRUE
  /\ right_emojis_to_show' = <<>>
  /\ SetCursor(0)
  /\ placed_positions' = <<>>
  /\ recording_video' = FALSE
  /\ video_frames' = <<>>
  /\ frame_timestamps' = <<>>
  /\ recording_start_time' = None
  /\ audio_events' = <<>>
  /\ name_entered' = FALSE

KeyR ==
  /\ running /\ OnCanvas
  /\ IF variant = 10 THEN ResetKeepName
     ELSE /\ ResetAll
          /\ UNCHANGED <<on_start_page, start_button_rect, back_arrow_rect>>
  /\ UNCHANGED <<envVars, audioVars, placeVars, queryVars, fsVars>>

\* P: play_recording blocks for 500 ms per played note
KeyP ==
  /\ running /\ OnCanvas
  /\ played_fruits # <<>>
  /\ ticks < MaxCycles * FRAME_MS
  /\ ticks' = ticks + 500 * Len(played_fruits)
  /\ UNCHANGED <<audioVars, placeVars, queryVars, variant, wall_sec, running, fsVars, editVars, nameVars,
                 rectVars, msgVars, frameVars, noteVars, recVars>>

\* cap bounds the number of notes played
SymbolKeyNext(cap) ==
  \E k \in Keys(variant), size \in ModelSizes :
    KeySymbol(k, size, ModelXs, ModelYs, cap)

\* ---------------------------------------------------------------- export
\* f"{duration:.2f}" for duration = n / 60, in hundredths of a second:
\* 100 * n / 60 = 5n/3 is never half-way between two integers
Duration2f(n) == (10 * n + 3) \div (FPS \div 10)

\* the lines numbered from the last played fruit back to the first
SequenceLinesReversed(fruits) ==
  [i \in 1 .. Len(fruits) |->
     <<i, fruits[Len(fruits) + 1 - i].pitch, fruits[Len(fruits) + 1 - i].name>>]

\* the "Music Sequence:" lines, one <<i+1, pitch, name>> per played fruit
SequenceLines(fruits) ==
  [i \in 1 .. Len(fruits) |-> <<i, fruits[i].pitch, fruits[i].name>>]

\* what a file holds; call is the number of the save_work call that wrote it
VideoFile(call, complete) ==
  [kind |-> "video", call |-> call, complete |-> complete,
   song_name |-> <<>>, total_frames |-> Len(video_frames), duration |-> 0,
   lines |-> <<>>]

SidecarFile(call, complete) ==
  [kind |-> "sidecar", call |-> call, complete |-> complete,
   song_name |-> song_name, total_frames |-> Len(video_frames),
   duration |-> Duration2f(Len(video_frames)),
   lines |-> IF complete THEN SequenceLines(played_fruits) ELSE <<>>]

WriteFile(fs, path, content) ==
  [q \in (DOMAIN fs) \cup {path} |-> IF q = path THEN content ELSE fs[q]]

MkdirOutcomes == {"ok", "raise"}
\* write_videofile: writes the file; returns without writing it; raises
\* before anything is on disk; raises with a partial file left behind
EncodeOutcomes == {"ok", "absent", "raise", "raise_partial"}
\* open(..)/f.write of the sidecar: succeeds; open raises; a write raises
SidecarOutcomes == {"ok", "raise", "raise_partial"}

\* save_work without its except clauses: every exception leaves the call
SaveReturnUncaught(ok, outcome, info, stem, sec, dir, fs, log) ==
  [raised |-> outcome \in {"mkdir_failed", "encode_failed", "sidecar_failed"},
   ok |-> ok, outcome |-> outcome, info |-> info,
   stem |-> stem, call |-> IF stem = NoStem THEN 0 ELSE Len(log),
   wall_sec |-> sec, dir_exists |-> dir, files |-> fs, export_log |-> log]

\* what save_work hands back: "return False, reason" of the early exits and
\* of the except clauses, "return True, video_path"; never an exception
SaveReturn(ok, outcome, info, stem, sec, dir, fs, log) ==
  [raised |-> FALSE, ok |-> ok, outcome |-> outcome, info |-> info,
   stem |-> stem, call |-> IF stem = NoStem THEN 0 ELSE Len(log),
   wall_sec |-> sec, dir_exists |-> dir, files |-> fs, export_log |-> log]

\* the export goes on without any captured frame
NothingRecordedNever == FALSE

\* "if not game_state.video_frames:"
NothingRecorded == video_frames = <<>>

\* the final check finds no file whatever the encoder wrote
FileExistsNever(fs, path) == FALSE

\* os.path.exists(video_path)
FileExists(fs, path) == path \in DOMAIN fs

\* save_work(): the value returned and the directory left behind, for one
\* choice of what the file system and the encoder do; now is the second
\* datetime.now() shows when the file name is made (wall_sec is the second
\* it showed at the previous export, the wall clock does not run backwards)
save_work(now, mk, enc, side) ==
  IF NothingRecorded
  THEN SaveReturn(FALSE, "no_recording",
                  Message("No recording available", NoPath), NoStem,
                  wall_sec, dir_exists, files, export_log)
  ELSE IF ~dir_exists /\ mk = "raise"
  THEN SaveReturn(FALSE, "mkdir_failed",
                  Message("Failed to create directory: ", NoPath), NoStem,
                  wall_sec, dir_exists, files, export_log)
  ELSE
    LET filename == FileName(song_name, now)
        video_path == VideoPath(filename)
        log == Append(export_log, [name |-> song_name, path |-> video_path])
        call == Len(log)
        encoded ==
          CASE enc = "ok" -> WriteFile(files, video_path, VideoFile(call, TRUE))
            [] enc = "raise_partial" ->
                 WriteFile(files, video_path, VideoFile(call, FALSE))
            [] OTHER -> files
        written ==
          CASE side = "ok" ->
                 WriteFile(encoded, SidecarPath(filename),
                           SidecarFile(call, TRUE))
            [] side = "raise_partial" ->
                 WriteFile(encoded, SidecarPath(filename),
                           SidecarFile(call, FALSE))
            [] OTHER -> encoded
    IN IF enc \in {"raise", "raise_partial"}
       THEN SaveReturn(FALSE, "encode_failed",
                       Message("str(e) of the encoder", NoPath), filename,
                       now, TRUE, encoded, log)
       ELSE IF side # "ok"
       THEN SaveReturn(FALSE, "sidecar_failed",
                       Message("str(e) of the sidecar write", NoPath), filename,
                       now, TRUE, written, log)
       ELSE IF FileExists(written, video_path)
       THEN SaveReturn(TRUE, "ok", Message("", video_path), filename,
                       now, TRUE, written, log)
       ELSE SaveReturn(FALSE, "file_absent",
                       Message("File creation failed", NoPath), filename,
                       now, TRUE, written, log)

\* ------------------------------------------------------- MOUSEBUTTONDOWN
ClickTargets == {"start_button", "name_box", "back_arrow", "download",
                 "elsewhere"}

\* begin editing the name with the cursor at its end
BeginEdit ==
  /\ editing_name' = TRUE
  /\ name_input' = song_name
  /\ SetCursor(Len(song_name))

\* leave the edit mode, keeping a non-blank input as the name
EndEdit(mark_entered) ==
  /\ IF Strip(name_input) # <<>>
     THEN /\ song_name' = Strip(name_input)
          /\ name_entered' = IF mark_entered THEN TRUE ELSE name_entered
     ELSE UNCHANGED <<song_name, name_entered>>
  /\ editing_name' = FALSE
  /\ name_input' = <<>>
  /\ SetCursor(0)

\* click on the start page of the 10-symbol variant
ClickStartPage(target) ==
  /\ IF start_button_rect /\ target = "start_button"
     THEN /\ Len(Strip(song_name)) > 0
          /\ on_start_page' = FALSE
          /\ editing_name' = FALSE
          /\ name_entered' = TRUE
          /\ UNCHANGED <<song_name, editVars>>
     ELSE IF target = "name_box"
     THEN /\ ~editing_name
          /\ BeginEdit
          /\ UNCHANGED <<song_name, name_entered, on_start_page>>
     ELSE /\ editing_name
          /\ EndEdit(FALSE)
          /\ UNCHANGED on_start_page
  /\ UNCHANGED <<envVars, audioVars, placeVars, queryVars, fsVars, rectVars, msgVars, frameVars, noteVars,
                 recVars>>

\* click on the back arrow: back to the start page, recording discarded
ClickBackArrow ==
  /\ on_start_page' = TRUE
  /\ editing_name' = TRUE
  /\ name_entered' = FALSE
  /\ recording_video' = FALSE
  /\ video_frames' = <<>>
  /\ frame_timestamps' = <<>>
  /\ recording_start_time' = None
  /\ audio_events' = <<>>
  /\ played_fruits' = <<>>
  /\ right_emojis_to_show' = <<>>
  /\ placed_positions' = <<>>
  /\ name_input' = song_name
  /\ SetCursor(Len(song_name))
  /\ UNCHANGED <<envVars, audioVars, placeVars, queryVars, fsVars, rectVars, msgVars, song_name, audio_data>>

\* click that only closes the popup
ClickPopup ==
  /\ save_message' = NoMessage
  /\ UNCHANGED <<envVars, audioVars, placeVars, queryVars, fsVars, editVars, nameVars, rectVars,
                 save_message_timer, save_success, frameVars, noteVars, recVars>>

\* the download handler after save_work returned r
AfterSave(r) ==
  /\ wall_sec' = r.wall_sec
  /\ dir_exists' = r.dir_exists
  /\ files' = r.files
  /\ export_log' = r.export_log
  /\ save_result' = [called |-> TRUE, raised |-> r.raised, ok |-> r.ok,
                     outcome |-> r.outcome, info |-> r.info,
                     stem |-> r.stem, call |-> r.call]
  /\ IF r.raised
     THEN \* an exception leaving save_work leaves main(): the process dies
          /\ running' = FALSE
          /\ UNCHANGED msgVars
     ELSE /\ running' = running
          /\ save_success' = r.ok
          /\ save_message' = IF r.ok THEN SavedMsg(r.info.path)
                             ELSE SaveFailedMsg(variant)
          /\ save_message_timer' = ticks

\* an export that hands the frame buffer over to the encoder and keeps
\* none of it
ClickDownloadConsumes(env) ==
  /\ IF ~recording_video
     THEN /\ \E now \in {t \in env.clock : t >= wall_sec}, run \in env.runs :
               LET r == save_work(now, run[1], run[2], run[3])
               IN /\ Len(r.export_log) <= env.exports
                  /\ AfterSave(r)
          /\ video_frames' = <<>>
          /\ frame_timestamps' = <<>>
     ELSE /\ save_success' = FALSE
          /\ save_message' = SpaceFirstMsg(variant)
          /\ save_message_timer' = ticks
          /\ UNCHANGED <<fsVars, wall_sec, running, frameVars>>
  /\ UNCHANGED <<audioVars, placeVars, queryVars, variant, ticks, editVars,
                 nameVars, rectVars, noteVars, recVars>>

\* a download handler that does not look at recording_video
ClickDownloadAlways(env) ==
  /\ \E now \in {t \in env.clock : t >= wall_sec}, run \in env.runs :
       LET r == save_work(now, run[1], run[2], run[3])
       IN /\ Len(r.export_log) <= env.exports
          /\ AfterSave(r)
  /\ UNCHANGED <<audioVars, placeVars, queryVars, variant, ticks, editVars, nameVars, rectVars,
                 frameVars, noteVars, recVars>>

\* click on Download & Save
ClickDownload(env) ==
  /\ IF ~recording_video
     THEN \E now \in {t \in env.clock : t >= wall_sec}, run \in env.runs :
          LET r == save_work(now, run[1], run[2], run[3])
          IN /\ Len(r.export_log) <= env.exports
             /\ AfterSave(r)
     ELSE /\ save_success' = FALSE
          /\ save_message' = SpaceFirstMsg(variant)
          /\ save_message_timer' = ticks
          /\ UNCHANGED <<fsVars, wall_sec, running>>
  /\ UNCHANGED <<audioVars, placeVars, queryVars, variant, ticks, editVars, nameVars, rectVars,
                 frameVars, noteVars, recVars>>

\* click on the name box / elsewhere in the 7-symbol variant
ClickNameBox7(target) ==
  /\ IF target = "name_box"
     THEN /\ ~editing_name /\ ~recording_video
          /\ BeginEdit
          /\ UNCHANGED <<song_name, name_entered>>
     ELSE /\ editing_name
          /\ EndEdit(TRUE)
  /\ UNCHANGED <<envVars, audioVars, placeVars, queryVars, fsVars, rectVars, msgVars, frameVars, noteVars,
                 recVars, on_start_page>>

PopupOpen ==
  save_message.text # "" /\ ticks - save_message_timer < POPUP_CLICK_MS

MouseDown(target, env) ==
  /\ running
  /\ IF variant = 10 /\ on_start_page
     THEN ClickStartPage(target)
     ELSE IF variant = 10 /\ back_arrow_rect /\ target = "back_arrow"
     THEN ClickBackArrow
     ELSE IF PopupOpen
     THEN ClickPopup
     ELSE IF download_button_rect /\ target = "download"
     THEN ClickDownload(env)
     ELSE /\ variant = 7
          /\ ClickNameBox7(target)

\* pygame.QUIT ends the main loop: pygame.quit(), sys.exit().  The process
\* and its GameState are gone, the saved files stay
Quit ==
  /\ running
  /\ running' = FALSE
  /\ ResetAll
  /\ on_start_page' = (variant = 10)
  /\ start_button_rect' = FALSE
  /\ back_arrow_rect' = FALSE
  /\ ticks' = 0
  /\ save_result' = NoResult
  /\ UNCHANGED <<audioVars, placeVars, queryVars, variant, wall_sec, dir_exists, files, export_log>>

\* one run of save_work as its surroundings decide it: the outcomes of
\* os.makedirs, write_videofile and the sidecar write, each left at "ok"
\* where an earlier failure keeps the program from getting that far
ExportRuns ==
  {run \in MkdirOutcomes \X EncodeOutcomes \X SidecarOutcomes :
     /\ run[1] = "raise" => run[2] = "ok"
     /\ run[2] \in {"raise", "raise_partial"} \/ run[1] = "raise"
          => run[3] = "ok"}

\* what the program's surroundings may do during an export: the seconds
\* the wall clock may show, the runs save_work may take, and how many
\* exports get as far as a file name
WallSeconds == {0, 1}
WritableFs(clock, exports) ==
  [clock |-> clock, runs |-> ExportRuns, exports |-> exports]
\* saved_works cannot be created (read-only installation directory)
ReadOnlyFs == [clock |-> {0}, runs |-> {<<"raise", "ok", "ok">>}, exports |-> 0]

MouseNext(targets, env) == \E target \in targets : MouseDown(target, env)

\* the whole program on a read-only installation directory; the name is
\* typed, confirmed with Return or a click, or given up with Escape
Next ==
  \/ Cycle(MaxCycles)
  \/ TextInput(<<"a">>)
  \/ KeyReturn
  \/ KeyEscape
  \/ SymbolKeyNext(MaxPlayed)
  \/ KeySpace
  \/ KeyR
  \/ KeyP
  \/ MouseNext(ClickTargets, ReadOnlyFs)
  \/ Quit

Spec == Init /\ [][Next]_vars

\* the name box with every editing key
NextEdit ==
  \/ Cycle(MaxCycles)
  \/ EditNext(InputChars)
  \/ MouseNext({"start_button", "name_box", "elsewhere"}, ReadOnlyFs)

SpecEdit == Init /\ [][NextEdit]_vars

\* one session played on, going on without a reset after a stop
NextRestart ==
  \/ Cycle(MaxCycles)
  \/ TextInput(<<"a">>)
  \/ KeyReturn
  \/ SymbolKeyNext(MaxRestartNotes)
  \/ KeySpace
  \/ MouseNext({"start_button"}, ReadOnlyFs)

SpecRestart == Init /\ [][NextRestart]_vars

\* the program on a writable directory, for one session: the user types
\* the name "a", confirms it with Return or a click, and never presses R
\* or P, clicks the name box or the back arrow, or closes the window
ExportTargets == {"start_button", "download", "elsewhere"}

ExportNext(clock, exports) ==
  \/ Cycle(MaxExportCycles)
  \/ (name_input = <<>> /\ TextInput(<<"a">>))
  \/ KeyReturn
  \/ SymbolKeyNext(MaxPlayed)
  \/ KeySpace
  \/ MouseNext(ExportTargets, WritableFs(clock, exports))

\* every export within one second of the wall clock
NextExport == ExportNext({0}, MaxExports)

SpecExport == Init /\ [][NextExport]_vars

\* the same with room for a second export, in the same second or the next
NextReexport == ExportNext(WallSeconds, MaxReexports)

SpecReexport == Init /\ [][NextReexport]_vars

\* work names of every kind of character: a letter, a space, a hyphen, an
\* underscore and a character the file name must not keep; one TEXTINPUT
\* event brings the whole text (paste, input method)
StemChars == {"a", " ", "-", "_", "/"}
StemTexts == UNION {[1 .. n -> StemChars] : n \in 1 .. MaxTextLen}

\* an export that succeeds
GoodFs(exports) ==
  [clock |-> {0}, runs |-> {<<"ok", "ok", "ok">>}, exports |-> exports]

\* one work named, one note played, stopped and exported
NextStem ==
  \/ Cycle(MaxExportCycles)
  \/ \E text \in StemTexts : name_input = <<>> /\ TextInput(text)
  \/ KeyReturn
  \/ (played_fruits = <<>> /\ SymbolKeyNext(MaxPlayed))
  \/ KeySpace
  \/ MouseNext({"start_button", "download"}, GoodFs(MaxExports))

SpecStem == Init /\ [][NextStem]_vars

\* ------------------------------------------------- placement in a session
\* a few of the sizes random.randint(40, 80) and of the positions
\* random.randint(660, 1060), random.randint(230, 530) can give
PlaceSizes == {40, 41}
PlaceXs == {660, 710, 760}
PlaceYs == {230, 280}

NextPlace ==
  \/ Cycle(MaxCycles)
  \/ TextInput(<<"a">>)
  \/ KeyReturn
  \/ \E k \in Keys(variant), size \in PlaceSizes :
       KeySymbol(k, size, PlaceXs, PlaceYs, MaxPlayed)
  \/ MouseNext({"start_button"}, ReadOnlyFs)

SpecPlace == Init /\ [][NextPlace]_vars

\* --------------------------------------------- the placement loop alone
\* histories the loop itself can have built: every shape passed the test
\* against the shapes before it
Shapes(sizes, xs, ys) == [x : xs, y : ys, size : sizes]
Histories(sizes, xs, ys, count) ==
  {h \in UNION {[1 .. n -> Shapes(sizes, xs, ys)] : n \in 0 .. count} :
     \A i \in DOMAIN h :
       ~IsOverlapping(h[i].x, h[i].y, h[i].size, SubSeq(h, 1, i - 1))}
\* how many times the first position is drawn before the other one
LoopRepeats == {0, 1, max_attempts - 1, max_attempts, max_attempts + 1}
PlacementCalls(sizes, xs, ys, count) ==
  [history : Histories(sizes, xs, ys, count), size : sizes,
   repeat : LoopRepeats, first : Positions(xs, ys),
   rest : Positions(xs, ys)]

InitLoop ==
  /\ Constructed
  /\ track_call = NoCall
  /\ frame_query = NoQuery
  /\ placement_call \in PlacementCalls(PlaceSizes, PlaceXs, {230}, MaxHistory)

RunPlacement ==
  /\ placement_call # NoPlacementCall
  /\ placement' =
       PlacementLoop(placement_call.history, placement_call.size,
                     Stream(placement_call.repeat, placement_call.first,
                            placement_call.rest), 0)
  /\ UNCHANGED <<placement_call, audioVars, queryVars, envVars, fsVars, editVars,
                 nameVars, rectVars, msgVars, frameVars, noteVars, recVars>>

SpecLoop == InitLoop /\ [][RunPlacement]_vars

\* ------------------------------------------- generate_audio_track alone
\* the arguments save_work passes: the frame count behind duration, the
\* event log, the sample rate
TrackEvents(times, indices, count) ==
  UNION {[1 .. n -> times \X indices] : n \in 0 .. count}
TrackCalls(frames, times, indices, rates, count) ==
  [frames : frames, audio_events : TrackEvents(times, indices, count),
   sample_rate : rates]

InitTrack(variants, calls) ==
  /\ Constructed
  /\ variant \in variants
  /\ track_call \in calls
  /\ placement_call = NoPlacementCall
  /\ frame_query = NoQuery

\* audio_array = generate_audio_track(duration, game_state.audio_events)
GenerateTrack ==
  /\ track_call # NoCall
  /\ audio_array' = generate_audio_track(variant, sounds, track_call.frames,
                                          track_call.audio_events,
                                          track_call.sample_rate)
  /\ sounds' = SoundsAfterTrack(variant, sounds, track_call.audio_events)
  /\ UNCHANGED <<loading, track_call, placeVars, queryVars, envVars, fsVars,
                 editVars, nameVars, rectVars, msgVars, frameVars,
                 noteVars, recVars>>

\* buffer lengths at the real rate
LengthCalls ==
  TrackCalls(1 .. MaxTrackFrames, {0, 100}, {0, 1}, {SAMPLE_RATE}, 1)
SpecLength == InitTrack({10}, LengthCalls) /\ [][GenerateTrack]_vars

\* event offsets at the real rate, in a buffer of a little over a second
OffsetCalls ==
  TrackCalls({61}, {0, 6, 17, 350, 500, 1000}, {0, 1}, {SAMPLE_RATE}, 2)
SpecOffset == InitTrack({10}, OffsetCalls) /\ [][GenerateTrack]_vars

\* mixing at the model's rate: buffers of 2, 5 and 10 samples, events at
\* samples 0, 2 and 3
MixCalls ==
  TrackCalls({12, 30, 60}, {0, 200, 300}, {0, 1}, {MODEL_RATE},
             MaxTrackEvents)
SpecMix == InitTrack(Variants, MixCalls) /\ [][GenerateTrack]_vars

\* event lists for the order of mixing: a buffer of 5 samples, events at
\* samples 0, 3 and 5
OrderCalls ==
  TrackCalls({30}, {0, 300, 500}, {0, 1}, {MODEL_RATE}, MaxTrackEvents)
SpecOrder == InitTrack(Variants, OrderCalls) /\ [][GenerateTrack]_vars

\* chords in the 7-symbol variant: up to MaxOverlap notes that start at
\* samples 0 and 1 of a buffer of 5 or 10 samples
ChordCalls ==
  TrackCalls({30, 60}, {0, 100}, {0, 1}, {MODEL_RATE}, MaxOverlap)
SpecChord == InitTrack({7}, ChordCalls) /\ [][GenerateTrack]_vars

\* ------------------------------------------------------ make_frame alone
\* query times in milliseconds (den 1000) and in frame periods (den 60),
\* on buffers of a few lengths
QueryNums == 0 .. 130
QueryFrames == {1, 2, 3, 124, 130}
FrameQueries == [num : QueryNums, den : {1000, FPS}, frames : QueryFrames]

InitQuery ==
  /\ Constructed
  /\ track_call = NoCall
  /\ placement_call = NoPlacementCall
  /\ frame_query \in FrameQueries

GetFrame ==
  /\ frame_query # NoQuery
  /\ frame_index' =
       make_frame(frame_query.num, frame_query.den, frame_query.frames)
  /\ UNCHANGED <<frame_query, audioVars, placeVars, envVars, fsVars,
                 editVars, nameVars, rectVars, msgVars, frameVars, noteVars,
                 recVars>>

SpecQuery == InitQuery /\ [][GetFrame]_vars

\* start-up of the 10-symbol variant before the bank is filled: sounds = []
InitLoad ==
  /\ NewGame
  /\ variant = 10
  /\ sounds = <<>>
  /\ loading = NotLoaded
  /\ track_call = NoCall
  /\ placement_call = NoPlacementCall
  /\ frame_query = NoQuery

\* one pass of `for i in range(10)` over whatever the music folder holds
\* for symbol i
LoadNextSound ==
  /\ loading.i < NumSounds
  /\ \E folder \in MusicFolders :
       /\ sounds' = sounds \o LoadSound(loading.i, folder)
       /\ loading' = [i |-> loading.i + 1, folder |-> folder]
  /\ UNCHANGED <<track_call, audio_array, placeVars, queryVars, envVars,
                 fsVars, editVars, nameVars, rectVars, msgVars, frameVars,
                 noteVars, recVars>>

SpecLoad == InitLoad /\ [][LoadNextSound]_vars

\* ============================================================ properties
\* a click that reaches the download handler with the recorder Idle, that
\* is, one call of save_work
SaveCall ==
  /\ ~(variant = 10 /\ on_start_page)
  /\ ~PopupOpen
  /\ download_button_rect
  /\ ~recording_video
  /\ MouseDown("download", WritableFs(WallSeconds, Len(export_log) + 1))

\* C1: the event log and the frame buffer grow only in a step that ends
\* with the recorder Recording; a frame is appended only by a cycle that
\* also began Recording.  No step appends to either while Idle.
C1_NoCaptureWhileIdle ==
  [][/\ Len(video_frames') > Len(video_frames)
          => recording_video /\ recording_video'
     /\ Len(audio_events') > Len(audio_events) => recording_video'
     /\ ~recording_video /\ ~recording_video'
          => /\ Len(video_frames') <= Len(video_frames)
             /\ Len(audio_events') <= Len(audio_events)]_vars

\* the recorder was stopped with frames and events captured, and at least
\* one more loop cycle has run since without capturing a frame
C1_Witness ==
  /\ ~recording_video
  /\ video_frames # <<>>
  /\ audio_events # <<>>
  /\ ticks >= recording_start_time
                + frame_timestamps[Len(frame_timestamps)] + 2 * FRAME_MS

\* C2: Recording implies a confirmed, non-empty work name; a symbol key
\* pressed before the name is entered starts no recording, appends nothing
\* to played_fruits, audio_events or placed_positions and only sets the
\* failure message.
C2_RecordingNeedsName ==
  /\ [](recording_video => name_entered /\ song_name # <<>>)
  /\ [][(~name_entered /\ SymbolKeyNext(MaxPlayed))
          => /\ UNCHANGED <<played_fruits, audio_events, placed_positions,
                            recording_video, recording_start_time>>
             /\ ~recording_video'
             /\ save_message' = NAME_FIRST_MSG
             /\ ~save_success']_vars

\* a symbol key was pressed on the canvas before any name was entered
C2_Witness ==
  /\ save_message = NAME_FIRST_MSG
  /\ ~name_entered
  /\ ~editing_name
  /\ ~recording_video
  /\ played_fruits = <<>>
  /\ audio_events = <<>>

\* C3: Space while Recording sets recording_video to false and leaves
\* video_frames, frame_timestamps, audio_events and played_fruits as they
\* were.
C3_StopKeepsBuffers ==
  [][(recording_video /\ ~editing_name /\ KeySpace)
       => /\ ~recording_video'
          /\ UNCHANGED <<video_frames, frame_timestamps, audio_events,
                         played_fruits>>]_vars

\* stopped, with the frames and events of the recording still there
C3_Witness ==
  /\ ~recording_video
  /\ Len(video_frames) >= 2
  /\ Len(frame_timestamps) = Len(video_frames)
  /\ Len(audio_events) >= 2
  /\ Len(played_fruits) = Len(audio_events)

\* C4: in the 10-symbol variant R on the second page keeps song_name and
\* name_entered (the name is still set) and leaves audio_events,
\* played_fruits, video_frames, frame_timestamps and placed_positions empty
\* and the recorder Idle.
C4_ResetKeepsName ==
  [][(variant = 10 /\ ~on_start_page /\ KeyR)
       => /\ UNCHANGED <<song_name, name_entered>>
          /\ name_entered' /\ song_name' # <<>>
          /\ audio_events' = <<>>
          /\ played_fruits' = <<>>
          /\ video_frames' = <<>>
          /\ frame_timestamps' = <<>>
          /\ placed_positions' = <<>>
          /\ ~recording_video']_vars

\* page 2 of the 10-symbol variant, emptied after notes were played (the
\* sounds of the earlier notes are still in audio_data)
C4_Witness ==
  /\ variant = 10 /\ ~on_start_page
  /\ Len(audio_data) >= 2
  /\ name_entered /\ song_name # <<>>
  /\ played_fruits = <<>> /\ audio_events = <<>> /\ video_frames = <<>>
  /\ placed_positions = <<>> /\ right_emojis_to_show = <<>>
  /\ recording_start_time = None

\* C5: the timestamps in audio_events are non-decreasing in log order.
C5_TimestampsNonDecreasing ==
  \A i \in 1 .. (Len(audio_events) - 1) :
    audio_events[i][1] <= audio_events[i + 1][1]

\* C6: save_work with an empty frame buffer returns (False, "No recording
\* available") and leaves the directory, the files and the export history
\* as they were.
C6_EmptyExportNoEffect ==
  [][(SaveCall /\ video_frames = <<>>)
       => /\ ~save_result'.ok
          /\ ~save_result'.raised
          /\ save_result'.outcome = "no_recording"
          /\ save_result'.info.text = "No recording available"
          /\ UNCHANGED <<dir_exists, files, export_log>>]_vars

\* an export was refused for want of frames, before any directory existed
C6_Witness ==
  /\ save_result.called
  /\ save_result.outcome = "no_recording"
  /\ video_frames = <<>>
  /\ ~dir_exists
  /\ DOMAIN files = {}

\* the files written by call number c
WrittenBy(fs, c) == {q \in DOMAIN fs : fs[q].call = c}

\* C7 as stated: a save_work call that returns failure has written
\* neither the video file nor the sidecar.
C7_FailureLeavesNothing ==
  [][(SaveCall /\ ~save_result'.ok) => files' = files]_vars

\* C7 amended: a save_work call that returns failure has not left a
\* complete artifact (complete video plus complete sidecar) of that call.
\* No-recording and directory failures write nothing; an encoder exception
\* leaves no sidecar of the call; a sidecar exception leaves the encoded
\* video and no complete sidecar; "File creation failed" leaves the sidecar
\* and no video.
C7_FailureLeavesNoCompleteArtifact ==
  [][(SaveCall /\ ~save_result'.ok) =>
       LET r == save_result'
           vp == VideoPath(r.stem)
           sp == SidecarPath(r.stem)
           mine == WrittenBy(files', r.call)
       IN /\ r.outcome \in {"no_recording", "mkdir_failed"} => files' = files
          /\ r.outcome \notin {"no_recording", "mkdir_failed"} =>
               /\ \A q \in DOMAIN files' \ {vp, sp} :
                    q \in DOMAIN files /\ files'[q] = files[q]
               /\ ~(/\ vp \in mine /\ files'[vp].complete
                    /\ sp \in mine /\ files'[sp].complete)
          /\ r.outcome = "encode_failed" => sp \notin mine
          /\ r.outcome = "sidecar_failed" =>
               /\ vp \in mine => files'[vp].complete
               /\ sp \in mine => ~files'[sp].complete
          /\ r.outcome = "file_absent" =>
               /\ vp \notin DOMAIN files'
               /\ sp \in mine /\ files'[sp].complete]_vars

\* a failed export whose encoded video file is on disk without its sidecar
C7_Witness ==
  /\ save_result.called /\ ~save_result.ok
  /\ save_result.outcome = "sidecar_failed"
  /\ VideoPath(save_result.stem) \in DOMAIN files
  /\ files[VideoPath(save_result.stem)].call = save_result.call
  /\ SidecarPath(save_result.stem) \notin DOMAIN files

\* C8: save_work never raises; after a failure the handler sets
\* save_success false and a non-empty message, after a success it sets
\* save_success true and the message with the path of the video; the main
\* loop keeps running.
C8_FailureStaysInside ==
  [][SaveCall =>
       /\ running'
       /\ ~save_result'.raised
       /\ save_success' = save_result'.ok
       /\ save_message'.text # ""
       /\ save_message_timer' = ticks
       /\ save_result'.ok =>
            /\ save_message' = SavedMsg(VideoPath(save_result'.stem))
            /\ VideoPath(save_result'.stem) \in DOMAIN files'
       /\ ~save_result'.ok =>
            /\ save_message' = SaveFailedMsg(variant)
            /\ save_result'.outcome \in
                 {"no_recording", "mkdir_failed", "encode_failed",
                  "sidecar_failed", "file_absent"}]_vars

\* the encoder raised during an export and the program shows the failure
C8_Witness ==
  /\ running
  /\ save_result.called
  /\ save_result.outcome = "encode_failed"
  /\ ~save_success
  /\ save_message = SaveFailedMsg(variant)

\* the symbol that key k plays has sound index idx
SymbolOf(v, idx) ==
  CHOOSE f \in {NoteFruit(v, k) : k \in Keys(v)} : f.sound_index = idx

\* C9: the sidecar of a successful export has one Music Sequence line per
\* event of audio_events, the i-th naming the symbol of the i-th event;
\* Total Frames is the frame count and Duration is frame count / 60 (as
\* printed, to the nearest hundredth of a second).
C9_SidecarMatchesLog ==
  [][(SaveCall /\ save_result'.ok) =>
       LET sc == files'[SidecarPath(save_result'.stem)]
       IN /\ sc.kind = "sidecar" /\ sc.complete
          /\ Len(sc.lines) = Len(audio_events)
          /\ \A i \in 1 .. Len(audio_events) :
               LET f == SymbolOf(variant, audio_events[i][2])
               IN sc.lines[i] = <<i, f.pitch, f.name>>
          /\ sc.total_frames = Len(video_frames)
          /\ 6 * sc.duration - 10 * Len(video_frames) \in -3 .. 3
          /\ sc.song_name = song_name]_vars

\* a saved sidecar that lists two different symbols
C9_Witness ==
  /\ save_result.ok
  /\ SidecarPath(save_result.stem) \in DOMAIN files
  /\ LET sc == files[SidecarPath(save_result.stem)]
     IN /\ Len(sc.lines) = 2
        /\ sc.lines[1][3] # sc.lines[2][3]
        /\ sc.total_frames >= 1

\* C10: two exports of the same work name never get the same video path.
C10_ExportPathsDistinct ==
  \A i, j \in DOMAIN export_log :
    (i < j /\ export_log[i].name = export_log[j].name)
      => export_log[i].path # export_log[j].path

\* the characters a file stem may hold
StemAllowed == AlnumChars \cup {" ", "-", "_"}

\* C11: the stem of every export holds only alphanumerics, spaces, hyphens
\* and underscores, is what is left of the name's allowed characters, in
\* their order, once the spaces at both ends are cut off, and is never
\* empty: it is "music_emoji" when nothing is left.
C11_StemIsSafe ==
  \A e \in DOMAIN export_log :
    LET stem == export_log[e].path.stem.safe
        kept == SelectSeq(export_log[e].name, LAMBDA c : c \in StemAllowed)
        solid == {i \in DOMAIN kept : kept[i] # " "}
    IN /\ stem # <<>>
       /\ \A i \in DOMAIN stem : stem[i] \in StemAllowed
       /\ IF solid = {} THEN stem = DEFAULT_STEM
          ELSE LET a == CHOOSE i \in solid : \A j \in solid : i <= j
                   b == CHOOSE i \in solid : \A j \in solid : j <= i
               IN stem = SubSeq(kept, a, b)

\* an export of a name that loses a character in the middle and a space
\* that the loss brings to the front
C11_Witness ==
  \E e \in DOMAIN export_log :
    /\ export_log[e].name = <<"/", " ", "a">>
    /\ export_log[e].path.stem.safe = <<"a">>

\* C12: video_frames and frame_timestamps have the same length; a loop
\* cycle that ends Recording appends exactly one frame and one timestamp,
\* a cycle that ends Idle appends none, and every other step leaves the
\* frames alone or, as a reset, empties them: the frame count is the number
\* of cycles that ended Recording since the last reset.
C12_OneFramePerRecordingCycle ==
  /\ [](Len(video_frames) = Len(frame_timestamps))
  /\ [][IF Cycle(MaxCycles)
        THEN IF recording_video
             THEN /\ Len(video_frames') = Len(video_frames) + 1
                  /\ SubSeq(video_frames', 1, Len(video_frames)) = video_frames
                  /\ Len(frame_timestamps') = Len(frame_timestamps) + 1
                  /\ SubSeq(frame_timestamps', 1, Len(frame_timestamps))
                       = frame_timestamps
             ELSE UNCHANGED <<video_frames, frame_timestamps>>
        ELSE \/ UNCHANGED <<video_frames, frame_timestamps>>
             \/ video_frames' = <<>> /\ frame_timestamps' = <<>>]_vars

\* two cycles of a recording; the first frame is of the cycle in which the
\* first symbol key started it
C12_Witness ==
  /\ recording_video
  /\ Len(video_frames) = 2
  /\ frame_timestamps = <<0, FRAME_MS>>
  /\ recording_start_time = 0

\* C13: the buffer generate_audio_track allocates holds exactly
\* duration * 44100 stereo samples, 735 for every captured frame.
C13_BufferLength ==
  audio_array.called =>
    /\ ~audio_array.raised
    /\ audio_array.num_samples = (SAMPLE_RATE \div FPS) * track_call.frames
C13_Shortfall ==
  /\ audio_array.called
  /\ track_call.frames = 11
  /\ audio_array.num_samples = 8084

\* C14: the sample offset of every event is round(timestamp * 44100), the
\* whole number nearest to the millisecond timestamp times 44.1 (either
\* neighbour when the product ends in .5).
C14_OffsetIsRounded ==
  audio_array.called =>
    \A e \in DOMAIN audio_array.slices :
      LET ms == track_call.audio_events[e][1]
          offset == audio_array.slices[e].start
      IN  2 * Abs(1000 * offset - track_call.sample_rate * ms) <= 1000
C14_Truncated ==
  /\ audio_array.called
  /\ track_call.audio_events = << <<17, 0>>, <<350, 1>> >>
  /\ audio_array.slices[1].start = 749
  /\ audio_array.slices[2].start = 15434

\* C15: mixing never writes outside the buffer: a clip that runs past the
\* end is cut at the end, and an event whose offset is at or after the end
\* contributes nothing and raises no error.
InBuffer(event) ==
  StartSample(event[1], track_call.sample_rate) < audio_array.num_samples
C15_MixStaysInBuffer ==
  audio_array.called =>
    LET events == track_call.audio_events
        rate == track_call.sample_rate
        length(e) == Len(SoundArray(variant, sounds, events[e][2], rate))
        written(e) ==
          {i \in 0 .. audio_array.num_samples - 1 :
             /\ i >= audio_array.slices[e].start
             /\ i < audio_array.slices[e].start + length(e)}
    IN  /\ ~audio_array.raised
        /\ DOMAIN audio_array.data = UNION {written(e) : e \in DOMAIN events}
        /\ audio_array.data =
             MixEvents(variant, sounds, SelectSeq(events, InBuffer),
                       audio_array.num_samples, rate, <<>>)
C15_Witness ==
  /\ audio_array.called
  /\ audio_array.num_samples = 2
  /\ track_call.audio_events = << <<0, 0>>, <<200, 1>>, <<300, 1>> >>
  /\ audio_array.slices[1] = [start |-> 0, end |-> 2]
  /\ audio_array.slices[2] = [start |-> 2, end |-> 2]
  /\ audio_array.slices[3] = [start |-> 3, end |-> 3]
  /\ DOMAIN audio_array.data = {0, 1}

\* C16: the generated track does not depend on the order of the event
\* list: for every permutation of the list generate_audio_track returns
\* the same buffer.
Orders(n) ==
  {p \in [1 .. n -> 1 .. n] : \A i, j \in 1 .. n : p[i] = p[j] => i = j}
Buffer(track) ==
  [raised |-> track.raised, num_samples |-> track.num_samples,
   data |-> track.data, den |-> track.den]
C16_OrderIndependent ==
  audio_array.called =>
    LET events == track_call.audio_events
    IN  \A p \in Orders(Len(events)) :
          Buffer(generate_audio_track(variant, sounds, track_call.frames,
                                      [i \in DOMAIN events |-> events[p[i]]],
                                      track_call.sample_rate))
            = Buffer(audio_array)
C16_Witness ==
  /\ audio_array.called
  /\ audio_array.num_samples = 5
  /\ track_call.audio_events = << <<300, 0>>, <<0, 1>>, <<0, 0>> >>
  /\ SampleAt(audio_array.data, 0) = <<52767, -12768>>
  /\ SampleAt(audio_array.data, 4) = <<-20000, -20000>>

\* C17: normalization: a buffer whose peak absolute value is at most 1.0
\* is returned unchanged; above 1.0 every sample is divided by the peak,
\* so the returned peak is exactly 1.0 and no sample exceeds 1.0.
C17_Normalized ==
  (audio_array.called /\ ~audio_array.raised) =>
    LET mixed == MixEvents(variant, sounds, track_call.audio_events,
                           audio_array.num_samples, track_call.sample_rate,
                           <<>>)
        peak == MaxVal(mixed)
    IN  /\ audio_array.data = mixed
        /\ peak <= INT16_SCALE => audio_array.den = INT16_SCALE
        /\ peak > INT16_SCALE =>
             /\ audio_array.den = peak
             /\ \A i \in DOMAIN mixed :
                  /\ Abs(mixed[i][1]) <= audio_array.den
                  /\ Abs(mixed[i][2]) <= audio_array.den
             /\ \E i \in DOMAIN mixed :
                  \/ Abs(mixed[i][1]) = audio_array.den
                  \/ Abs(mixed[i][2]) = audio_array.den
C17_Witness ==
  /\ audio_array.called
  /\ variant = 10
  /\ track_call.audio_events = << <<0, 0>>, <<0, 0>>, <<300, 1>> >>
  /\ audio_array.num_samples = 5
  /\ audio_array.data[0] = <<40000, 40000>>
  /\ audio_array.den = 40000

C19_ShapesApart ==
  \A i, j \in DOMAIN placed_positions :
    i < j =>
      LET a == placed_positions[i]
          b == placed_positions[j]
          dx == (2 * a.x + a.size) - (2 * b.x + b.size)
          dy == (2 * a.y + a.size) - (2 * b.y + b.size)
          apart == a.size + b.size + 2 * GAP
      IN  dx * dx + dy * dy >= apart * apart
C19_TooClose ==
  placed_positions = << [x |-> 710, y |-> 230, size |-> 40],
                        [x |-> 660, y |-> 230, size |-> 41] >>

\* C20: the placement loop returns the first accepted candidate and tests
\* at most 50 candidates; the fallback position is used exactly when 50
\* candidates were sampled and every one was rejected, and then exactly
\* one further position is sampled and used without an overlap check.
C20_FirstAcceptedOrFallback ==
  placement.sampled > 0 =>
    LET call == placement_call
        stream == Stream(call.repeat, call.first, call.rest)
        rejected(i) ==
          IsOverlapping(stream[i].x, stream[i].y, call.size, call.history)
        used == stream[placement.sampled]
    IN  /\ placement.tested <= 50
        /\ \A i \in 1 .. placement.tested - 1 : rejected(i)
        /\ placement.x = used.x /\ placement.y = used.y
        /\ placement.accepted =>
             /\ ~rejected(placement.tested)
             /\ placement.sampled = placement.tested
        /\ ~placement.accepted <=> \A i \in 1 .. 50 : rejected(i)
        /\ ~placement.accepted =>
             /\ placement.tested = 50
             /\ placement.sampled = 51
C20_Witness ==
  /\ placement_call.history = << [x |-> 660, y |-> 230, size |-> 40] >>
  /\ placement_call.size = 41
  /\ placement_call.repeat = 51
  /\ placement_call.first = [x |-> 660, y |-> 230]
  /\ placement_call.rest = [x |-> 760, y |-> 230]
  /\ ~placement.accepted
  /\ placement.tested = 50
  /\ placement.sampled = 51
  /\ placement.x = 660
  /\ placement.history = placement_call.history

\* C21: every position the placement step returns is appended to the
\* placement history, on the fallback path as on the accepted path:
\* placed_positions holds one shape for each emoji of right_emojis_to_show.
C21_HistoryHoldsEveryEmoji ==
  /\ Len(placed_positions) = Len(right_emojis_to_show)
  /\ \A i \in DOMAIN placed_positions :
       /\ placed_positions[i].x = right_emojis_to_show[i].random_x
       /\ placed_positions[i].y = right_emojis_to_show[i].random_y
       /\ placed_positions[i].size
            = right_emojis_to_show[i].random_display_size
C21_FallbackNotRecorded ==
  /\ Len(right_emojis_to_show) = 2
  /\ Len(placed_positions) = 1
  /\ right_emojis_to_show[2].random_x = right_emojis_to_show[1].random_x
  /\ right_emojis_to_show[2].random_y = right_emojis_to_show[1].random_y

\* C22: make_frame, for every query time t >= 0 and every non-empty buffer
\* of N frames, returns a frame of index 0..N-1: the captured frame nearest
\* to t at 60 fps for t within the clip (either neighbour half-way between
\* two frames), and the last frame for every t >= N / 60.
C22_NearestFrame ==
  frame_index # None =>
    LET num == frame_query.num
        den == frame_query.den
        N == frame_query.frames
    IN  /\ frame_index \in 0 .. N - 1
        /\ FPS * num >= N * den => frame_index = N - 1
        /\ FPS * num < N * den =>
             \A other \in 0 .. N - 1 :
               Abs(FPS * num - frame_index * den)
                 <= Abs(FPS * num - other * den)
C22_FrameSkipped ==
  /\ frame_query = [num |-> 123, den |-> 60, frames |-> 124]
  /\ frame_index = 122

\* C23: an export call only reads the session: whatever its outcome,
\* save_work leaves video_frames, frame_timestamps, audio_events,
\* played_fruits, placed_positions, song_name and recording_video as they
\* were, so the session can be exported again.
C23_ExportReadsOnly ==
  [][SaveCall =>
       /\ save_result'.called
       /\ UNCHANGED <<video_frames, frame_timestamps, audio_events,
                      played_fruits, placed_positions, song_name,
                      recording_video>>]_vars
C23_Witness ==
  /\ save_result.called
  /\ save_result.outcome = "encode_failed"
  /\ video_frames # <<>>
  /\ audio_events # <<>>
  /\ played_fruits # <<>>
  /\ ~recording_video

\* C24: after the reset key is handled every session field other than
\* song_name / name_entered (event log, frame buffer, frame timestamps,
\* start timestamp, played sequence, audio_data, placement history,
\* displayed emojis, recording flag) has its value in a fresh GameState.
C24_ResetDiscardsSession ==
  [][KeyR =>
       /\ audio_events' = <<>>
       /\ video_frames' = <<>>
       /\ frame_timestamps' = <<>>
       /\ recording_start_time' = None
       /\ played_fruits' = <<>>
       /\ audio_data' = <<>>
       /\ placed_positions' = <<>>
       /\ right_emojis_to_show' = <<>>
       /\ recording_video' = FALSE]_vars
C24_StalePlaybackList ==
  /\ variant = 10
  /\ audio_data # <<>>
  /\ played_fruits = <<>>
  /\ audio_events = <<>>
  /\ video_frames = <<>>
  /\ ~recording_video
  /\ name_entered

\* s is an initial segment of t
IsPrefix(s, t) == Len(s) <= Len(t) /\ SubSeq(t, 1, Len(s)) = s

\* a step that restarts the session: R, or the back arrow of the
\* 10-symbol variant
SessionReset ==
  \/ KeyR
  \/ /\ running /\ variant = 10 /\ ~on_start_page /\ back_arrow_rect
     /\ ClickBackArrow

\* C25: between resets the event log only grows: across every step other
\* than R or the back arrow, audio_events before the step is a prefix of
\* audio_events after it (a step is one that leaves the program running:
\* after pygame.QUIT there is no GameState left to hold a log)
C25_LogAppendOnly ==
  [][running' => IsPrefix(audio_events, audio_events') \/ SessionReset]_vars

\* two events logged, recording stopped, export attempted: the log is intact
C25_Witness ==
  /\ Len(audio_events) = 2 /\ ~recording_video /\ save_result.called

\* sound is the clip of symbol i: the file music/NNN.ext of that symbol,
\* or the synthesized tone of its frequency
ClipOf(sound, i) ==
  \/ /\ sound.tone = <<>>
     /\ \E e \in 1 .. Len(Extensions) : sound.path = <<i, Extensions[e]>>
  \/ sound = generate_tone(frequencies[i + 1], TONE_MS)

\* C26: whatever the music folder holds for a symbol, its pass of the
\* loading loop goes through, appends exactly one clip, the clip of that
\* symbol (the synthesized tone of its frequency when no file of it
\* loads), and leaves the clips of the symbols before it where they were;
\* so the loop ends with 10 clips, sounds[i] the clip of symbol i
C26_OneClipPerSymbol ==
  [][LoadNextSound =>
       /\ IsPrefix(sounds, sounds')
       /\ Len(sounds') = loading'.i
       /\ \A k \in 1 .. Len(sounds') : ClipOf(sounds'[k], k - 1)
       /\ (\A e \in 1 .. Len(Extensions) : loading'.folder[e] # "loads")
            => sounds'[loading'.i] =
                 generate_tone(frequencies[loading'.i], TONE_MS)
       /\ loading'.i = loading.i + 1]_vars

\* the loop came to its end although both files of the last symbol raised,
\* symbol 0 had no file and symbol 1 a .wav that raised and an .mp3 that
\* loaded
C26_Witness ==
  /\ loading = [i |-> NumSounds, folder |-> [e \in 1 .. 2 |-> "raises"]]
  /\ Len(sounds) = NumSounds
  /\ sounds[1] = generate_tone(262, TONE_MS)
  /\ sounds[2] = FileSound(1, ".mp3")
  /\ sounds[3] = FileSound(2, ".wav")
  /\ sounds[NumSounds] = generate_tone(659, TONE_MS)

\* a click that reaches the download handler with the recorder Recording
RefusedCall ==
  /\ ~(variant = 10 /\ on_start_page)
  /\ ~PopupOpen
  /\ download_button_rect
  /\ recording_video
  /\ MouseDown("download", WritableFs(WallSeconds, Len(export_log) + 1))

\* C27: a Download click while Recording does not call save_work: it
\* writes nothing, sets save_success false and the "press Space first"
\* message and leaves frames, events and the recorder as they were; and
\* save_work is called, or anything written, only from a state with
\* recording_video false
C27_RefusedWhileRecording ==
  [][/\ RefusedCall =>
          /\ UNCHANGED <<fsVars, frameVars, noteVars, recVars>>
          /\ save_success' = FALSE
          /\ save_message' = SpaceFirstMsg(variant)
     /\ fsVars' # fsVars => ~recording_video]_vars

\* the refusal is on screen over a live recording and nothing was exported
C27_Witness ==
  /\ recording_video /\ video_frames # <<>> /\ audio_events # <<>>
  /\ save_message = SpaceFirstMsg(variant) /\ ~save_success
  /\ save_result = NoResult /\ files = <<>> /\ ~dir_exists

\* the arithmetic sum, at buffer position i, of the samples of the notes of
\* events that cover i
RECURSIVE NoteSum(_, _, _, _, _)
NoteSum(v, events, num_samples, sample_rate, i) ==
  IF events = <<>> THEN ZeroSample
  ELSE LET slice == EventSlice(v, sounds, Head(events), num_samples,
                               sample_rate)
           rest == NoteSum(v, Tail(events), num_samples, sample_rate, i)
           note == SoundArray(v, sounds, Head(events)[2], sample_rate)
       IN  IF i >= slice.start /\ i < slice.end
           THEN <<rest[1] + note[i - slice.start + 1][1],
                  rest[2] + note[i - slice.start + 1][2]>>
           ELSE rest

\* C28: in the 7-symbol variant the value generate_audio_track leaves at
\* every buffer position is the arithmetic sum of the samples of the notes
\* overlapping it, however many notes overlap (no int16 wrap-around)
C28_SumNeverWraps ==
  (variant = 7 /\ audio_array.called) =>
    \A i \in 0 .. audio_array.num_samples - 1 :
      SampleAt(audio_array.data, i) =
        NoteSum(variant, track_call.audio_events, audio_array.num_samples,
                track_call.sample_rate, i)

\* five notes of 262 Hz struck together: their second samples add up to
\* 5 * 6925 = 34625, and the int16 buffer holds 34625 - 65536
C28_Wrapped ==
  /\ variant = 7 /\ audio_array.called
  /\ track_call.audio_events = [e \in 1 .. 5 |-> <<0, 0>>]
  /\ NoteSum(variant, track_call.audio_events, audio_array.num_samples,
             track_call.sample_rate, 1) = <<34625, 34625>>
  /\ SampleAt(audio_array.data, 1) = <<-30911, -30911>>

\* C29: a loop cycle ends with a frame in the buffer whenever the event log
\* holds an event, whatever the events handled in the cycle were (a symbol
\* key and then Space among them), so an export of a session with an event
\* is never answered "No recording available"
C29_EventsImplyFrames ==
  [][/\ Cycle(MaxExportCycles) =>
          (audio_events' # <<>> => video_frames' # <<>>)
     /\ (SaveCall /\ audio_events # <<>>) =>
          save_result'.info.text # "No recording available"]_vars

\* a key and Space in the first cycle: the cycle has ended, one event is
\* logged, no frame was captured and the export was turned down
C29_EventWithoutFrame ==
  /\ ticks >= FRAME_MS /\ ~recording_video
  /\ Len(audio_events) = 1 /\ video_frames = <<>>
  /\ save_result.called /\ ~save_result.ok
  /\ save_result.info.text = "No recording available"

\* C30: the played sequence and the event log are aligned (same length,
\* played_fruits[i] and audio_events[i] name the same sound), and a frame
\* buffer that holds a frame comes with an event log that holds an event
C30_PlayedMatchesEvents ==
  /\ Len(played_fruits) = Len(audio_events)
  /\ \A i \in 1 .. Len(played_fruits) :
       played_fruits[i].sound_index = audio_events[i][2]
  /\ video_frames # <<>> => audio_events # <<>>

\* two different symbols played, the second after a stop, with frames kept
C30_Witness ==
  /\ Len(played_fruits) = 2 /\ Len(audio_events) = 2
  /\ played_fruits[1].sound_index # played_fruits[2].sound_index
  /\ audio_events[2][2] = played_fruits[2].sound_index
  /\ video_frames # <<>> /\ recording_video

====
